---- MODULE Spec2Model ----
(***************************************************************************)
(* Model of src/main.py: the per-host probe loop (MonitorThread), the      *)
(* host panels that own the workers and their result queues (HostPanel),   *)
(* and the application that owns the ordered panel list (App).             *)
(*                                                                         *)
(* Two specifications share this module:                                   *)
(*   Spec        the application: panels, worker threads, queues, polling, *)
(*               applying results, sorting, start/stop/remove/close;       *)
(*   SpecWorker  one MonitorThread with the numeric detail of its cycle    *)
(*               (streak, elapsed time, backoff, wait).                    *)
(* Time is counted in half seconds (0.5 s = 1), latency in milliseconds.   *)
(***************************************************************************)
EXTENDS Integers, Sequences, FiniteSets, TLC

(* ------------------------------ bounds --------------------------------- *)
MaxPanels == 3      \* HostPanel objects ever created in one run
MaxThreads == 2     \* MonitorThread objects ever started in one run
MaxEmit == 2        \* probes started in one run, over all threads
MaxInterval == 61   \* largest cfg.interval tried, in half seconds (30.5 s)
SmallIntervals == 4 \* intervals 0.5 s .. 2 s are all tried
MaxSortApply == 3   \* results applied to the panels of SpecSort
MaxApply == 105     \* results applied to the one panel of SpecWindow
FreeSamples == 2    \* of which the first ones have any outcome and latency
MaxDur == 4         \* longest probe duration tried, in half seconds

PanelIds == 1..MaxPanels
Threads == 1..MaxThreads

(* ------------------------- program constants --------------------------- *)
None == 0                    \* Python None for worker / queue references
NoLatency == -1              \* Python None for the "latency" of a result
Sentinel == 2000000000       \* 1e12 in the source; above every latency
MaxPoints == 100             \* Sparkline(max_points=100)
FailureCap == 10             \* min(self._failures + 1, 10)
MaxBackoff == 60             \* self._max_backoff = 30.0 s
FloorMs == 20                \* max(20.0, p95 or 20.0)
MinInterval == 1             \* max(0.5, d_interval)

FirstHost == "B"             \* the host of the panel made by App.__init__
Hosts == {"a"}               \* host names a user types into the Add Host popup
Latencies == {10}            \* connect latencies of successful probes, ms
WindowLatencies == {0, 10, 50}   \* connect latencies of the first results of SpecWindow, ms
SortLatencies == {0, 10, 50}        \* connect latencies of the results of SpecSort, ms
SortModes == {"status", "latency", "host"}
\* cfg.interval values: the short ones, and the ones around the 30 s cap
Intervals == {i \in MinInterval..MaxInterval : i <= SmallIntervals \/ i >= MaxBackoff}
CfgValues == {1, 4, 10}          \* interval and timeout of a host of the config file
Timeouts == {1, 4}           \* cfg.timeout values: 0.5 s and 2 s

VARIABLES
  panels,        \* App.panels: the ordered list of live HostPanel objects
  pstate,        \* per panel object: "fresh" | "live" | "destroyed"
  host,          \* HostPanel.cfg.host
  worker,        \* HostPanel.worker: None or a thread
  out_q,         \* HostPanel.out_q: the queue the panel polls, named by the
                 \* thread it was made for (None: no thread puts on it)
  nthreads,      \* number of MonitorThread objects started so far
  last_ok,       \* HostPanel._last_ok: "None" | "True" | "False"
  last_latency,  \* HostPanel._last_latency
  points,        \* HostPanel.spark.points
  sort_by,       \* App.sort_by
  auto_sort,     \* App.auto_sort_var
  pc,            \* per thread: position in MonitorThread.run
  owner,         \* per thread: the panel that started it
  stopEv,        \* per thread: MonitorThread._stop (threading.Event)
  failures,      \* per thread: MonitorThread._failures
  queue,         \* per thread: contents of the Queue given to the thread
  emitted,       \* per thread: number of results put so far
  applied,       \* per panel: ids of the results _apply_result has applied
  stopAt,        \* per thread: position of the thread when stop() was called
  emitsAfterStop,  \* per thread: results put after stop() was called
  probesAfterStop, \* per thread: probes started after stop() was called
  Wpc,           \* the worker of SpecWorker: position in MonitorThread.run
  Wstop,         \* its _stop event
  Wfailures,     \* its _failures
  Winterval,     \* its cfg.interval (shared with the consumer)
  Wtimeout,      \* its cfg.timeout (shared with the consumer)
  WusedTimeout,  \* the timeout passed to the tcp_ping call in flight
  Wok,           \* ok of the last tcp_ping
  Welapsed,      \* elapsed = time.time() - started
  Wbase,         \* base = self.cfg.interval, as read in the last cycle
  Wbackoff,      \* backoff of the last cycle
  Wwait,         \* wait of the last cycle
  WprevFailures, \* _failures before the last cycle's update
  Whandle,       \* HostPanel.worker of its panel is not None
  Wdefaults      \* <<App.default_interval, App.default_timeout>>

appVars == <<panels, pstate, host, worker, out_q, nthreads, last_ok,
             last_latency, points, sort_by, auto_sort>>
threadVars == <<pc, owner, stopEv, failures, queue, emitted>>
historyVars == <<applied, stopAt, emitsAfterStop, probesAfterStop>>
mainVars == <<appVars, threadVars, historyVars>>
workerVars == <<Wpc, Wstop, Wfailures, Winterval, Wtimeout, WusedTimeout,
                Wok, Welapsed, Wbase, Wbackoff, Wwait, WprevFailures, Whandle, Wdefaults>>
vars == <<mainVars, workerVars>>

(* ------------------------------ helpers -------------------------------- *)
Min(a, b) == IF a < b THEN a ELSE b
Max(a, b) == IF a > b THEN a ELSE b

RECURSIVE Pow2(_)
Pow2(n) == IF n = 0 THEN 1 ELSE 2 * Pow2(n - 1)

Front(s) == SubSeq(s, 1, Len(s) - 1)
InSeq(s, x) == \E i \in 1..Len(s) : s[i] = x
RemoveFirst(s, x) ==
  IF ~InSeq(s, x) THEN s
  ELSE LET i == CHOOSE j \in 1..Len(s) : s[j] = x /\ \A k \in 1..(j - 1) : s[k] # x
       IN SubSeq(s, 1, i - 1) \o SubSeq(s, i + 1, Len(s))
Count(s, x) == Cardinality({i \in 1..Len(s) : s[i] = x})

(* ---------------------- MonitorThread.run, pieces ---------------------- *)
\* while not self._stop.is_set():
LoopNextNoCheck(isSet) == "probing"
LoopNext(isSet) == IF isSet THEN "stopped" ELSE "probing"

\* tcp_ping: connect() is inside try/except Exception, so a failed probe
\* returns (False, None, str(e)) as a successful one returns (True, ms, None),
\* and run goes on to out_q.put
AfterPingRaise(ok) == IF ok THEN "emit" ELSE "stopped"
AfterPing(ok) == "emit"

\* queue.Queue() has no maxsize: put() on a queue q never blocks
CanPutBounded(q) == Len(q) < 1
CanPut(q) == TRUE

\* MonitorThread.stop: self._stop.set()
SetEventToggle(e) == ~e
SetEvent(e) == TRUE

\* if self._stop.wait(wait): break
WaitNextNoBreak(signaled) == "probing"
WaitNextAlwaysBreak(signaled) == "stopped"
WaitNext(signaled) == IF signaled THEN "stopped" ELSE "loop"

\* if ok: self._failures = 0  else: self._failures = min(self._failures + 1, 10)
NextFailuresNoReset(ok, f) == IF ok THEN f ELSE Min(f + 1, FailureCap)
NextFailuresNoCap(ok, f) == IF ok THEN 0 ELSE f + 1
NextFailures(ok, f) == IF ok THEN 0 ELSE Min(f + 1, FailureCap)

\* backoff = min(self._max_backoff, base * (2 ** self._failures)) if self._failures > 0 else base
BackoffShifted(base, f) == IF f > 0 THEN Min(MaxBackoff, base * Pow2(f - 1)) ELSE base
BackoffUncapped(base, f) == IF f > 0 THEN base * Pow2(f) ELSE base
Backoff(base, f) == IF f > 0 THEN Min(MaxBackoff, base * Pow2(f)) ELSE base

\* HostPanel.start: self.cfg.interval = max(0.5, d_interval), and the same
\* for the timeout, whatever value the cfg held
FromDefault(cfgValue, d) == Max(MinInterval, d)

\* tcp_ping(self.cfg.host, self.cfg.port, self.cfg.timeout): the shared cfg
\* object is read at every call (used is the timeout of the call before, 0 if none)
ReadTimeoutOnce(cfgTimeout, used) == IF used = 0 THEN cfgTimeout ELSE used
ReadTimeout(cfgTimeout, used) == cfgTimeout

\* wait = max(0.0, backoff - elapsed)
WaitForNoFloor(backoff, elapsed) == backoff - elapsed
WaitFor(backoff, elapsed) == Max(0, backoff - elapsed)

(* --------------------------- HostPanel pieces -------------------------- *)
\* x or d  (None and 0.0 are falsy)
Or(x, d) == IF x = NoLatency \/ x = 0 THEN d ELSE x

\* bool(self._last_ok)
Bool(x) == x = "True"

\* thread.is_alive()
IsAlive(t) == pc[t] \notin {"unborn", "stopped"}

\* HostPanel.start: if self.worker and self.worker.is_alive(): return
Running(p) == worker[p] # None /\ IsAlive(worker[p])

\* HostPanel.stop: self.worker = None
WorkerAfterStopKept(w) == w
WorkerAfterStop(w) == None

(* ------------------------------ sorting -------------------------------- *)
\* str.lower()
Lower(h) == CASE h = "A" -> "a" [] h = "B" -> "b" [] OTHER -> h
\* order of the lowercase host names
Ord(h) == CASE h = "a" -> 1 [] h = "b" -> 2 [] OTHER -> 3

\* App._sort_panels: the key function k(p), as a tuple of integers
KeyOfflineFirst(mode, lok, llat, hst, p) ==
  IF mode = "latency" THEN <<llat[p], Ord(Lower(hst[p]))>>
  ELSE IF mode = "host" THEN <<Ord(Lower(hst[p]))>>
  ELSE <<(IF Bool(lok[p]) THEN 1 ELSE 0), llat[p], Ord(Lower(hst[p]))>>

Key(mode, lok, llat, hst, p) ==
  IF mode = "latency" THEN <<llat[p], Ord(Lower(hst[p]))>>
  ELSE IF mode = "host" THEN <<Ord(Lower(hst[p]))>>
  ELSE <<(IF ~Bool(lok[p]) THEN 1 ELSE 0), llat[p], Ord(Lower(hst[p]))>>

\* Python tuple comparison k1 < k2 for keys of equal length
RECURSIVE KeyLess(_, _)
KeyLess(k1, k2) ==
  IF k1 = <<>> THEN FALSE
  ELSE IF Head(k1) # Head(k2) THEN Head(k1) < Head(k2)
  ELSE KeyLess(Tail(k1), Tail(k2))

\* sorted(): stable, so an element goes after every element whose key is
\* not greater than its own
RECURSIVE InsertBeforeEqual(_, _, _, _, _, _)
InsertBeforeEqual(acc, x, mode, lok, llat, hst) ==
  IF acc = <<>> THEN <<x>>
  ELSE IF ~KeyLess(Key(mode, lok, llat, hst, acc[Len(acc)]), Key(mode, lok, llat, hst, x))
       THEN Append(InsertBeforeEqual(Front(acc), x, mode, lok, llat, hst), acc[Len(acc)])
       ELSE Append(acc, x)

RECURSIVE InsertStable(_, _, _, _, _, _)
InsertStable(acc, x, mode, lok, llat, hst) ==
  IF acc = <<>> THEN <<x>>
  ELSE IF KeyLess(Key(mode, lok, llat, hst, x), Key(mode, lok, llat, hst, acc[Len(acc)]))
       THEN Append(InsertStable(Front(acc), x, mode, lok, llat, hst), acc[Len(acc)])
       ELSE Append(acc, x)

RECURSIVE SortFrom(_, _, _, _, _, _)
SortFrom(acc, rest, mode, lok, llat, hst) ==
  IF rest = <<>> THEN acc
  ELSE SortFrom(InsertStable(acc, Head(rest), mode, lok, llat, hst), Tail(rest),
                mode, lok, llat, hst)

\* App._sort_panels: ordered = sorted(self.panels, key=k); self.panels = ordered
SortPanels(ps, mode, lok, llat, hst) == SortFrom(<<>>, ps, mode, lok, llat, hst)

\* App._on_panel_update
OnPanelUpdateNoSort(ps, auto, mode, lok, llat, hst) == ps
OnPanelUpdate(ps, auto, mode, lok, llat, hst) ==
  IF auto THEN SortPanels(ps, mode, lok, llat, hst) ELSE ps

(* --------------------------- applying results -------------------------- *)
\* Sparkline.push, evicting at the wrong end
PushDropNewest(pts, latency, ok) ==
  LET appended == Append(pts, <<Or(latency, 0), ok>>)
  IN IF Len(appended) > MaxPoints THEN Front(appended) ELSE appended

\* Sparkline.push
Push(pts, latency, ok) ==
  LET appended == Append(pts, <<Or(latency, 0), ok>>)
  IN IF Len(appended) > MaxPoints THEN Tail(appended) ELSE appended

\* HostPanel._apply_result writing _last_ok and _last_latency of every panel
ApplyResultShared(st, p, data) ==
  LET lok == [q \in PanelIds |-> IF data.ok THEN "True" ELSE "False"]
      llat == [q \in PanelIds |-> Or(data.latency, Sentinel)]
  IN [panels |-> OnPanelUpdate(st.panels, auto_sort, sort_by, lok, llat, host),
      last_ok |-> lok,
      last_latency |-> llat,
      points |-> [st.points EXCEPT ![p] = Push(@, data.latency, data.ok)],
      applied |-> [st.applied EXCEPT ![p] = Append(@, data.id)]]

\* HostPanel._apply_result on panel p, as a function of the consumer state
\* st = [panels, last_ok, last_latency, points, applied]
ApplyResult(st, p, data) ==
  LET lok == [st.last_ok EXCEPT ![p] = IF data.ok THEN "True" ELSE "False"]
      llat == [st.last_latency EXCEPT ![p] = Or(data.latency, Sentinel)]
  IN [panels |-> OnPanelUpdate(st.panels, auto_sort, sort_by, lok, llat, host),
      last_ok |-> lok,
      last_latency |-> llat,
      points |-> [st.points EXCEPT ![p] = Push(@, data.latency, data.ok)],
      applied |-> [st.applied EXCEPT ![p] = Append(@, data.id)]]

\* Sparkline._redraw: lat_vals = [p[0] for p in self.points if p[1]] or [0.0]
OkLatencies(pts) ==
  LET sel == SelectSeq(pts, LAMBDA e : e[2]) IN [i \in 1..Len(sel) |-> sel[i][1]]
LatVals(pts) == IF OkLatencies(pts) = <<>> THEN <<0>> ELSE OkLatencies(pts)

\* sorted(lat_vals)
RECURSIVE InsertAsc(_, _)
InsertAsc(acc, x) ==
  IF acc = <<>> THEN <<x>>
  ELSE IF x < acc[Len(acc)] THEN Append(InsertAsc(Front(acc), x), acc[Len(acc)])
  ELSE Append(acc, x)
RECURSIVE SortedAsc(_)
SortedAsc(v) == IF v = <<>> THEN <<>> ELSE InsertAsc(SortedAsc(Front(v)), v[Len(v)])

\* p95_index = int(max(0, int(len(lat_vals_sorted) * 0.95) - 1))
P95IndexCeil(n) == Max(0, (n * 95 + 99) \div 100 - 1)
P95Index(n) == Max(0, (n * 95) \div 100 - 1)

\* p95 = lat_vals_sorted[p95_index]
P95(pts) == LET v == SortedAsc(LatVals(pts)) IN v[P95Index(Len(v)) + 1]

\* max_v = max(20.0, p95 or 20.0)
EffP95(pts) == Or(P95(pts), FloorMs)
MaxV(pts) == Max(FloorMs, EffP95(pts))

\* HostPanel._poll_results: get_nowait() until queue.Empty, applying each
RECURSIVE DrainNewestFirst(_, _, _)
DrainNewestFirst(st, p, q) ==
  IF q = <<>> THEN st
  ELSE DrainNewestFirst(ApplyResult(st, p, q[Len(q)]), p, Front(q))

RECURSIVE Drain(_, _, _)
Drain(st, p, q) ==
  IF q = <<>> THEN st ELSE Drain(ApplyResult(st, p, Head(q)), p, Tail(q))

(* ------------------------------- Init ---------------------------------- *)
\* App.__init__ with one configured host: the panel is created, its worker
\* started (HostPanel.__init__ calls start()), and the list sorted.
MainInit ==
  /\ panels = <<1>>
  /\ pstate = [p \in PanelIds |-> IF p = 1 THEN "live" ELSE "fresh"]
  /\ host = [p \in PanelIds |-> IF p = 1 THEN FirstHost ELSE ""]
  /\ worker = [p \in PanelIds |-> IF p = 1 THEN 1 ELSE None]
  /\ out_q = [p \in PanelIds |-> IF p = 1 THEN 1 ELSE None]
  /\ nthreads = 1
  /\ last_ok = [p \in PanelIds |-> "None"]
  /\ last_latency = [p \in PanelIds |-> Sentinel]
  /\ points = [p \in PanelIds |-> <<>>]
  /\ sort_by = "status"
  /\ auto_sort = TRUE
  /\ pc = [t \in Threads |-> IF t = 1 THEN "loop" ELSE "unborn"]
  /\ owner = [t \in Threads |-> IF t = 1 THEN 1 ELSE None]
  /\ stopEv = [t \in Threads |-> FALSE]
  /\ failures = [t \in Threads |-> 0]
  /\ queue = [t \in Threads |-> <<>>]
  /\ emitted = [t \in Threads |-> 0]
  /\ applied = [p \in PanelIds |-> <<>>]
  /\ stopAt = [t \in Threads |-> "none"]
  /\ emitsAfterStop = [t \in Threads |-> 0]
  /\ probesAfterStop = [t \in Threads |-> 0]

(* ------------------------ MonitorThread.run ---------------------------- *)
\* a thread that enters "probing" with its stop event already set
CountProbe(t, nxt) ==
  probesAfterStop' = [probesAfterStop EXCEPT
                        ![t] = IF nxt = "probing" /\ stopEv[t] THEN @ + 1 ELSE @]

RECURSIVE SumTo(_, _)
SumTo(f, n) == IF n = 0 THEN 0 ELSE f[n] + SumTo(f, n - 1)

\* probes started so far, over all threads
Started == SumTo(emitted, MaxThreads) + Cardinality({t \in Threads : pc[t] = "probing"})

\* the thread may start one more probe (MaxEmit bounds the run)
MayProbe(t) == IF stopEv[t] THEN probesAfterStop[t] < 2 ELSE Started < MaxEmit

\* while not self._stop.is_set(): started = time.time(); tcp_ping(...) begins
LoopCheck(t) ==
  LET nxt == LoopNext(stopEv[t]) IN
  /\ pc[t] = "loop"
  /\ nxt = "probing" => MayProbe(t)
  /\ pc' = [pc EXCEPT ![t] = nxt]
  /\ CountProbe(t, nxt)
  /\ UNCHANGED <<appVars, owner, stopEv, failures, queue, emitted,
                 applied, stopAt, emitsAfterStop>>

\* tcp_ping returns (True, latency, None) or (False, None, str(e));
\* self.out_q.put({...}); the streak update; backoff and wait computed;
\* the thread enters self._stop.wait(wait)
ProbeEmit(t, ok, lat) ==
  /\ pc[t] = "probing"
  /\ IF ok THEN lat \in Latencies ELSE lat = NoLatency
  /\ CanPut(queue[t])
  /\ queue' = [queue EXCEPT ![t] = Append(@, [id |-> <<t, emitted[t] + 1>>,
                                              ok |-> ok, latency |-> lat])]
  /\ emitted' = [emitted EXCEPT ![t] = @ + 1]
  /\ failures' = [failures EXCEPT ![t] = NextFailures(ok, @)]
  /\ pc' = [pc EXCEPT ![t] = "waiting"]
  /\ emitsAfterStop' = [emitsAfterStop EXCEPT ![t] = IF stopEv[t] THEN @ + 1 ELSE @]
  /\ UNCHANGED <<appVars, owner, stopEv, applied, stopAt, probesAfterStop>>

\* self._stop.wait(wait) returns True: the event was set during the wait
WaitAbort(t) ==
  LET nxt == WaitNext(TRUE) IN
  /\ pc[t] = "waiting"
  /\ stopEv[t]
  /\ nxt = "probing" => MayProbe(t)
  /\ pc' = [pc EXCEPT ![t] = nxt]
  /\ CountProbe(t, nxt)
  /\ UNCHANGED <<appVars, owner, stopEv, failures, queue, emitted,
                 applied, stopAt, emitsAfterStop>>

\* self._stop.wait(wait) returns False: the timeout elapsed first (the event
\* may have been set just after the timeout, before wait() returned)
WaitTimeout(t) ==
  LET nxt == WaitNext(FALSE) IN
  /\ pc[t] = "waiting"
  /\ nxt = "probing" => MayProbe(t)
  /\ pc' = [pc EXCEPT ![t] = nxt]
  /\ CountProbe(t, nxt)
  /\ UNCHANGED <<appVars, owner, stopEv, failures, queue, emitted,
                 applied, stopAt, emitsAfterStop>>

(* ------------------------------ HostPanel ------------------------------ *)
PanelSet == {panels[i] : i \in 1..Len(panels)}

\* HostPanel.stop on every panel of S
PanelStop(S) ==
  LET hit(t) == \E p \in S : worker[p] = t IN
  /\ stopEv' = [t \in Threads |-> stopEv[t] \/ hit(t)]
  /\ stopAt' = [t \in Threads |-> IF hit(t) /\ ~stopEv[t] THEN pc[t] ELSE stopAt[t]]
  /\ worker' = [p \in PanelIds |-> IF p \in S THEN WorkerAfterStop(worker[p])
                                              ELSE worker[p]]

\* HostPanel.start on the panels of the sequence ps, in order: a panel with a
\* running worker returns at once, every other gets a new Queue and a new,
\* started MonitorThread
PanelStart(ps) ==
  LET go == SelectSeq(ps, LAMBDA p : ~Running(p))
      new(p) == nthreads + (CHOOSE i \in 1..Len(go) : go[i] = p)
      starts(p) == InSeq(go, p)
  IN /\ nthreads + Len(go) <= MaxThreads
     /\ nthreads' = nthreads + Len(go)
     /\ out_q' = [p \in PanelIds |-> IF starts(p) THEN new(p) ELSE out_q[p]]
     /\ worker' = [p \in PanelIds |-> IF starts(p) THEN new(p) ELSE worker[p]]
     /\ owner' = [t \in Threads |-> IF \E p \in PanelIds : starts(p) /\ new(p) = t
                                    THEN CHOOSE p \in PanelIds : starts(p) /\ new(p) = t
                                    ELSE owner[t]]
     /\ pc' = [t \in Threads |-> IF \E p \in PanelIds : starts(p) /\ new(p) = t
                                 THEN "loop" ELSE pc[t]]

\* HostPanel._poll_results (the after() callback of a panel that still exists)
PollResults(p) ==
  LET q == IF out_q[p] = None THEN <<>> ELSE queue[out_q[p]]
      st == Drain([panels |-> panels, last_ok |-> last_ok,
                   last_latency |-> last_latency, points |-> points,
                   applied |-> applied], p, q)
  IN /\ pstate[p] = "live"
     /\ panels' = st.panels
     /\ last_ok' = st.last_ok
     /\ last_latency' = st.last_latency
     /\ points' = st.points
     /\ applied' = st.applied
     /\ queue' = IF out_q[p] = None THEN queue ELSE [queue EXCEPT ![out_q[p]] = <<>>]
     /\ UNCHANGED <<pstate, host, worker, out_q, nthreads, sort_by, auto_sort,
                    pc, owner, stopEv, failures, emitted,
                    stopAt, emitsAfterStop, probesAfterStop>>

\* HostPanel.remove: self.stop(); self.on_remove(self); self.destroy()
Remove(p) ==
  /\ pstate[p] = "live"
  /\ PanelStop({p})
  /\ panels' = RemoveFirst(panels, p)
  /\ pstate' = [pstate EXCEPT ![p] = "destroyed"]
  /\ UNCHANGED <<host, out_q, nthreads, last_ok, last_latency, points, sort_by,
                 auto_sort, pc, owner, failures, queue, emitted,
                 applied, emitsAfterStop, probesAfterStop>>

(* --------------------------------- App --------------------------------- *)
\* App._add_host_from_popup: _create_panel (HostPanel.__init__ starts the
\* worker), _save_configs, _sort_panels
AddHost(h) ==
  \E p \in PanelIds :
    /\ pstate[p] = "fresh"
    /\ \A q \in PanelIds : q < p => pstate[q] # "fresh"
    /\ PanelStart(<<p>>)
    /\ pstate' = [pstate EXCEPT ![p] = "live"]
    /\ host' = [host EXCEPT ![p] = h]
    /\ panels' = SortPanels(Append(panels, p), sort_by, last_ok, last_latency, host')
    /\ UNCHANGED <<last_ok, last_latency, points, sort_by, auto_sort,
                   stopEv, failures, queue, emitted, historyVars>>

\* any(p.worker and p.worker.is_alive() for p in self.panels)
AnyRunning == \E i \in 1..Len(panels) : Running(panels[i])

\* App._start_stop_all, the branch that stops every panel
StopAll ==
  /\ AnyRunning
  /\ PanelStop(PanelSet)
  /\ UNCHANGED <<panels, pstate, host, out_q, nthreads, last_ok, last_latency,
                 points, sort_by, auto_sort, pc, owner, failures, queue, emitted,
                 applied, emitsAfterStop, probesAfterStop>>

\* App._start_stop_all, the branch that starts every panel
StartAll ==
  /\ ~AnyRunning
  /\ panels # <<>>
  /\ PanelStart(panels)
  /\ UNCHANGED <<panels, pstate, host, last_ok, last_latency, points,
                 sort_by, auto_sort, stopEv, failures, queue, emitted,
                 historyVars>>

MainNext ==
  \/ \E t \in Threads : LoopCheck(t)
  \/ \E t \in Threads, ok \in BOOLEAN, lat \in Latencies \cup {NoLatency} :
       ProbeEmit(t, ok, lat)
  \/ \E t \in Threads : WaitAbort(t)
  \/ \E t \in Threads : WaitTimeout(t)
  \/ \E p \in PanelIds : PollResults(p)
  \/ \E p \in PanelIds : Remove(p)
  \/ \E h \in Hosts : AddHost(h)
  \/ StopAll
  \/ StartAll

(* ------------------ SpecWorker: one MonitorThread ---------------------- *)
\* HostPanel.start: cfg.interval and cfg.timeout clamped to >= 0.5 s, the
\* thread constructed (_failures = 0, _stop clear) and started
WorkerInit ==
  /\ Wpc = "loop"
  /\ Wstop = FALSE
  /\ Wfailures = 0
  /\ Winterval \in Intervals
  /\ Wtimeout \in Timeouts
  /\ WusedTimeout = 0
  /\ Wok = FALSE
  /\ Welapsed = 0
  /\ Wbase = 0
  /\ Wbackoff = 0
  /\ Wwait = 0
  /\ WprevFailures = 0
  /\ Whandle = TRUE
  /\ Wdefaults = <<Winterval, Wtimeout>>

\* while not self._stop.is_set(): started = time.time(); tcp_ping(..., self.cfg.timeout)
WLoopCheck ==
  /\ Wpc = "loop"
  /\ Wpc' = LoopNext(Wstop)
  /\ WusedTimeout' = IF Wpc' = "probing" THEN ReadTimeout(Wtimeout, WusedTimeout)
                                        ELSE WusedTimeout
  /\ UNCHANGED <<Wstop, Wfailures, Winterval, Wtimeout, Wok, Welapsed, Wbase,
                 Wbackoff, Wwait, WprevFailures, Whandle, Wdefaults>>

\* tcp_ping returns after dur half seconds
WProbeDone(ok, dur) ==
  /\ Wpc = "probing"
  /\ Wok' = ok
  /\ Welapsed' = dur
  /\ Wpc' = AfterPing(ok)
  /\ UNCHANGED <<Wstop, Wfailures, Winterval, Wtimeout, WusedTimeout, Wbase,
                 Wbackoff, Wwait, WprevFailures, Whandle, Wdefaults>>

\* out_q.put; the streak update; elapsed, base, backoff and wait computed;
\* the thread enters self._stop.wait(wait)
WEmit ==
  /\ Wpc = "emit"
  /\ WprevFailures' = Wfailures
  /\ Wfailures' = NextFailures(Wok, Wfailures)
  /\ Wbase' = Winterval
  /\ Wbackoff' = Backoff(Wbase', Wfailures')
  /\ Wwait' = WaitFor(Wbackoff', Welapsed)
  /\ Wpc' = "waiting"
  /\ UNCHANGED <<Wstop, Winterval, Wtimeout, WusedTimeout, Wok, Welapsed, Whandle, Wdefaults>>

\* self._stop.wait(wait) returns True
WWaitAbort ==
  /\ Wpc = "waiting"
  /\ Wstop
  /\ Wpc' = WaitNext(TRUE)
  /\ UNCHANGED <<Wstop, Wfailures, Winterval, Wtimeout, WusedTimeout, Wok,
                 Welapsed, Wbase, Wbackoff, Wwait, WprevFailures, Whandle, Wdefaults>>

\* self._stop.wait(wait) returns False after wait half seconds
WWaitTimeout ==
  /\ Wpc = "waiting"
  /\ Wpc' = WaitNext(FALSE)
  /\ UNCHANGED <<Wstop, Wfailures, Winterval, Wtimeout, WusedTimeout, Wok,
                 Welapsed, Wbase, Wbackoff, Wwait, WprevFailures, Whandle, Wdefaults>>

\* MonitorThread.stop
WStop ==
  /\ Wstop' = SetEvent(Wstop)
  /\ UNCHANGED <<Wpc, Wfailures, Winterval, Wtimeout, WusedTimeout, Wok,
                 Welapsed, Wbase, Wbackoff, Wwait, WprevFailures, Whandle, Wdefaults>>

\* HostPanel.stop: if self.worker: self.worker.stop(); self.worker = None
WPanelStop ==
  /\ IF Whandle THEN Wstop' = SetEvent(Wstop) /\ Whandle' = FALSE
                ELSE UNCHANGED <<Wstop, Whandle, Wdefaults>>
  /\ UNCHANGED <<Wpc, Wfailures, Winterval, Wtimeout, WusedTimeout, Wok,
                 Welapsed, Wbase, Wbackoff, Wwait, WprevFailures, Wdefaults>>

\* App._set_interval: self.default_interval = max(0.5, val); every panel's
\* cfg.interval = self.default_interval
WSetInterval(v) ==
  /\ Wdefaults' = <<Max(MinInterval, v), Wdefaults[2]>>
  /\ Winterval' = Wdefaults'[1]
  /\ UNCHANGED <<Wpc, Wstop, Wfailures, Wtimeout, WusedTimeout, Wok,
                 Welapsed, Wbase, Wbackoff, Wwait, WprevFailures, Whandle>>

\* App._set_timeout: self.default_timeout = max(0.5, val); every panel's
\* cfg.timeout = self.default_timeout
WSetTimeout(v) ==
  /\ Wdefaults' = <<Wdefaults[1], Max(MinInterval, v)>>
  /\ Wtimeout' = Wdefaults'[2]
  /\ UNCHANGED <<Wpc, Wstop, Wfailures, Winterval, WusedTimeout, Wok,
                 Welapsed, Wbase, Wbackoff, Wwait, WprevFailures, Whandle>>

\* HostPanel.start: returns at once if the worker is alive; else cfg.interval
\* and cfg.timeout are set from the defaults and a new MonitorThread is
\* created and started (the worker record follows the newest thread)
CfgStart ==
  /\ ~(Whandle /\ Wpc \notin {"unborn", "stopped"})
  /\ Winterval' = FromDefault(Winterval, Wdefaults[1])
  /\ Wtimeout' = FromDefault(Wtimeout, Wdefaults[2])
  /\ Whandle' = TRUE
  /\ Wpc' = "loop"
  /\ Wstop' = FALSE
  /\ Wfailures' = 0
  /\ WusedTimeout' = 0 /\ Wok' = FALSE /\ Welapsed' = 0 /\ Wbase' = 0
  /\ Wbackoff' = 0 /\ Wwait' = 0 /\ WprevFailures' = 0
  /\ UNCHANGED Wdefaults

\* one step of the thread: MonitorThread.run
WThread ==
  \/ WLoopCheck
  \/ \E ok \in BOOLEAN, dur \in 0..MaxDur : WProbeDone(ok, dur)
  \/ WEmit
  \/ WWaitAbort
  \/ WWaitTimeout

WorkerNext ==
  \/ WLoopCheck
  \/ \E ok \in BOOLEAN, dur \in 0..MaxDur : WProbeDone(ok, dur)
  \/ WEmit
  \/ WWaitAbort
  \/ WWaitTimeout
  \/ WStop
  \/ \E v \in Intervals : WSetInterval(v)
  \/ \E v \in Timeouts : WSetTimeout(v)

(* ---------------- SpecWindow: one panel, many results ------------------ *)
\* outcome and latency of the k-th result once the first FreeSamples are past
FixedOk(k) == k % 4 # 0
FixedLatency(k) == ((k * 37) % 101) + 1

\* HostPanel._apply_result(data) on the first panel, data being the k-th
\* result its worker produced
WinApply(ok, lat) ==
  LET k == Len(applied[1]) + 1
      st == ApplyResult([panels |-> panels, last_ok |-> last_ok,
                         last_latency |-> last_latency, points |-> points,
                         applied |-> applied], 1,
                        [id |-> <<k, lat, ok>>, ok |-> ok, latency |-> lat])
  IN /\ k <= MaxApply
     /\ IF k <= FreeSamples
        THEN IF ok THEN lat \in WindowLatencies ELSE lat = NoLatency
        ELSE ok = FixedOk(k) /\ lat = (IF ok THEN FixedLatency(k) ELSE NoLatency)
     /\ panels' = st.panels
     /\ last_ok' = st.last_ok
     /\ last_latency' = st.last_latency
     /\ points' = st.points
     /\ applied' = st.applied
     /\ UNCHANGED <<pstate, host, worker, out_q, nthreads, sort_by, auto_sort,
                    threadVars, stopAt, emitsAfterStop, probesAfterStop>>

(* ------------- SpecSort: the panel list and its ordering --------------- *)
\* the configured hosts: two of them differ in case only
SortHost(p) == CASE p = 1 -> "B" [] p = 2 -> "a" [] p = 3 -> "A" [] OTHER -> "b"

\* results applied so far, over all panels
AppliedCount == SumTo([p \in PanelIds |-> Len(applied[p])], MaxPanels)

\* HostPanel._apply_result(data) on panel p, on_update included
SortApply(p, ok, lat) ==
  LET st == ApplyResult([panels |-> panels, last_ok |-> last_ok,
                         last_latency |-> last_latency, points |-> points,
                         applied |-> applied], p,
                        [id |-> <<p, Len(applied[p]) + 1>>, ok |-> ok, latency |-> lat])
  IN /\ pstate[p] = "live"
     /\ AppliedCount < MaxSortApply
     /\ IF ok THEN lat \in SortLatencies ELSE lat = NoLatency
     /\ panels' = st.panels
     /\ last_ok' = st.last_ok
     /\ last_latency' = st.last_latency
     /\ points' = st.points
     /\ applied' = st.applied
     /\ UNCHANGED <<pstate, host, worker, out_q, nthreads, sort_by, auto_sort,
                    threadVars, stopAt, emitsAfterStop, probesAfterStop>>

\* the sort menu's radio buttons: the variable is set, then _sort_panels runs
SetSortBy(m) ==
  /\ sort_by' = m
  /\ panels' = SortPanels(panels, m, last_ok, last_latency, host)
  /\ UNCHANGED <<pstate, host, worker, out_q, nthreads, last_ok, last_latency,
                 points, auto_sort, threadVars, historyVars>>

\* App._add_host_from_popup for the host not configured yet: _create_panel
\* appends the panel, then _sort_panels runs
SortAddHost ==
  \E p \in PanelIds :
    /\ pstate[p] = "fresh"
    /\ pstate' = [pstate EXCEPT ![p] = "live"]
    /\ panels' = SortPanels(Append(panels, p), sort_by, last_ok, last_latency, host)
    /\ UNCHANGED <<host, worker, out_q, nthreads, last_ok, last_latency, points,
                   sort_by, auto_sort, threadVars, historyVars>>

\* the sort menu's check button: the variable is set, nothing is sorted
ToggleAutoSort ==
  /\ auto_sort' = ~auto_sort
  /\ UNCHANGED <<panels, pstate, host, worker, out_q, nthreads, last_ok,
                 last_latency, points, sort_by, threadVars, historyVars>>

(* --------------------------- specifications ---------------------------- *)
\* the worker of SpecWorker, parked, while Spec runs
WorkerIdle ==
  /\ Wpc = "loop" /\ Wstop = FALSE /\ Wfailures = 0
  /\ Winterval = MinInterval /\ Wtimeout = MinInterval /\ WusedTimeout = 0
  /\ Wok = FALSE /\ Welapsed = 0 /\ Wbase = 0 /\ Wbackoff = 0 /\ Wwait = 0
  /\ WprevFailures = 0 /\ Whandle = TRUE
  /\ Wdefaults = <<MinInterval, MinInterval>>

\* the application of Spec, fixed in one constructed state, while SpecWorker runs
MainIdle == MainInit

Init == MainInit /\ WorkerIdle
Next == MainNext /\ UNCHANGED workerVars
Spec == Init /\ [][Next]_vars

InitWorker == WorkerInit /\ MainIdle
NextWorker == WorkerNext /\ UNCHANGED mainVars
SpecWorker == InitWorker /\ [][NextWorker]_vars

\* SpecSort: the application with all but one of MaxPanels hosts configured
\* and the last one added by the user; the workers are left out, results
\* reach the panels as inputs
InitSort ==
  /\ host = [p \in PanelIds |-> SortHost(p)]
  /\ last_ok = [p \in PanelIds |-> "None"]
  /\ last_latency = [p \in PanelIds |-> Sentinel]
  /\ sort_by = "status"
  /\ auto_sort = TRUE
  /\ panels = SortPanels([i \in 1..(MaxPanels - 1) |-> i], sort_by, last_ok,
                         last_latency, host)
  /\ pstate = [p \in PanelIds |-> IF p < MaxPanels THEN "live" ELSE "fresh"]
  /\ worker = [p \in PanelIds |-> None]
  /\ out_q = [p \in PanelIds |-> None]
  /\ nthreads = 0
  /\ points = [p \in PanelIds |-> <<>>]
  /\ pc = [t \in Threads |-> "unborn"]
  /\ owner = [t \in Threads |-> None]
  /\ stopEv = [t \in Threads |-> FALSE]
  /\ failures = [t \in Threads |-> 0]
  /\ queue = [t \in Threads |-> <<>>]
  /\ emitted = [t \in Threads |-> 0]
  /\ applied = [p \in PanelIds |-> <<>>]
  /\ stopAt = [t \in Threads |-> "none"]
  /\ emitsAfterStop = [t \in Threads |-> 0]
  /\ probesAfterStop = [t \in Threads |-> 0]
  /\ WorkerIdle
NextSort ==
  (\/ \E p \in PanelIds, ok \in BOOLEAN, lat \in SortLatencies \cup {NoLatency} :
        SortApply(p, ok, lat)
   \/ \E m \in SortModes : SetSortBy(m)
   \/ ToggleAutoSort
   \/ SortAddHost) /\ UNCHANGED workerVars
SpecSort == InitSort /\ [][NextSort]_vars

\* SpecConfig: one HostSpec from its creation (config load, user add or
\* bootstrap; HostPanel.__init__ then calls start()) over starts, stops,
\* changes of the defaults and the cycles of its worker
InitConfig ==
  /\ Wpc = "unborn" /\ Wstop = FALSE /\ Wfailures = 0
  /\ Winterval \in CfgValues /\ Wtimeout \in CfgValues
  /\ Wdefaults \in Timeouts \X Timeouts
  /\ WusedTimeout = 0 /\ Wok = FALSE /\ Welapsed = 0 /\ Wbase = 0
  /\ Wbackoff = 0 /\ Wwait = 0 /\ WprevFailures = 0
  /\ Whandle = FALSE
  /\ MainIdle
NextConfig ==
  (\/ CfgStart
   \/ WPanelStop
   \/ WThread
   \/ \E v \in Timeouts : WSetInterval(v)
   \/ \E v \in Timeouts : WSetTimeout(v)) /\ UNCHANGED mainVars
SpecConfig == InitConfig /\ [][NextConfig]_vars

InitWindow == MainInit /\ WorkerIdle
NextWindow ==
  (\E ok \in BOOLEAN, lat \in WindowLatencies \cup {NoLatency} \cup 1..101 :
     WinApply(ok, lat)) /\ UNCHANGED workerVars
SpecWindow == InitWindow /\ [][NextWindow]_vars

\* SpecStop: one MonitorThread and the handle its panel holds, with the
\* stop operations only; the thread is an OS thread that keeps being
\* scheduled, and every tcp_ping returns (it is bounded by its timeout)
InitStop == WorkerInit /\ Winterval <= SmallIntervals /\ MainIdle
ThreadStep == WThread /\ UNCHANGED mainVars
NextStop ==
  \/ ThreadStep
  \/ WStop /\ UNCHANGED mainVars
  \/ WPanelStop /\ UNCHANGED mainVars
SpecStop == InitStop /\ [][NextStop]_vars /\ WF_vars(ThreadStep)

(* ------------------------------- claims -------------------------------- *)
\* the threads a panel has started
ThreadsOf(p) == {t \in Threads : owner[t] = p}

\* C1: in MonitorThread.run, after a probe, the backoff is the base interval
\* when the streak is 0 and min(30 s, base * 2^streak) when the streak is at
\* least 1, and the wait entered is max(0, backoff - elapsed).
C1_BackoffAndWait ==
  Wpc = "waiting" =>
    /\ Wfailures = 0 => Wbackoff = Wbase
    /\ Wfailures >= 1 =>
         Wbackoff = (IF Wbase * Pow2(Wfailures) > 60 THEN 60 ELSE Wbase * Pow2(Wfailures))
    /\ Wwait >= 0
    /\ Wbackoff >= Welapsed => Wwait = Wbackoff - Welapsed
    /\ Wbackoff < Welapsed => Wwait = 0

\* C1 witness: a failed cycle whose doubled interval exceeded the cap and
\* whose probe took time, so that both the cap and the subtraction acted.
C1_Witness ==
  /\ Wpc = "waiting" /\ Wfailures >= 2 /\ Welapsed > 0
  /\ Wbase * Pow2(Wfailures) > 60 /\ Wbackoff = 60 /\ Wwait = 60 - Welapsed

\* C2 (as claimed): for every base interval >= 0.5 s the backoff never
\* decreases when the streak grows by one: the backoff the next failure would
\* get with the same base is at least the backoff just computed.
C2_NonDecreasing ==
  (Wpc = "waiting" /\ Wfailures < FailureCap) =>
    Backoff(Wbase, Wfailures + 1) >= Wbackoff

\* C3 (as claimed): with interval 2 s, every probe failing and taking no
\* time, the waits are 2 s, 4 s, 8 s, 16 s at streaks 1..4 and 30 s from
\* streak 5 on.
C3_WaitsAsClaimed ==
  (Wpc = "waiting" /\ Wbase = 4 /\ Welapsed = 0 /\ Wfailures >= 1) =>
    Wwait = (CASE Wfailures = 1 -> 4 [] Wfailures = 2 -> 8 [] Wfailures = 3 -> 16
               [] Wfailures = 4 -> 32 [] OTHER -> 60)

\* C3 (amended): with interval 2 s, every probe failing and taking no time,
\* the waits are 4 s, 8 s, 16 s at streaks 1..3 and 30 s from streak 4 on.
C3_Waits ==
  (Wpc = "waiting" /\ Wbase = 4 /\ Welapsed = 0 /\ Wfailures >= 1) =>
    Wwait = (CASE Wfailures = 1 -> 8 [] Wfailures = 2 -> 16 [] Wfailures = 3 -> 32
               [] OTHER -> 60)

\* C3 witness: the fifth consecutive instant failure of a worker whose
\* interval is 2 s.
C3_Witness ==
  Wpc = "waiting" /\ Wbase = 4 /\ Welapsed = 0 /\ Wfailures = 5 /\ Wwait = 60

\* C4: after every cycle the streak is 0 if the probe succeeded and
\* min(prior streak + 1, 10) if it failed; the streak is always in 0..10.
C4_Streak ==
  /\ Wfailures \in 0..10
  /\ Wpc = "waiting" =>
       IF Wok THEN Wfailures = 0
       ELSE Wfailures = (IF WprevFailures >= 10 THEN 10 ELSE WprevFailures + 1)

\* C4 witness: a failure at streak 10, where the cap acts.
C4_Witness ==
  Wpc = "waiting" /\ ~Wok /\ WprevFailures = 10 /\ Wfailures = 10

\* C5: a worker whose stop event is set while it is waiting starts no
\* further probe and puts no further result; it goes to Stopped (at most
\* through the loop test, when wait() had already timed out).
C5_StopWhileWaiting ==
  \A t \in Threads :
    stopAt[t] = "waiting" =>
      /\ pc[t] \in {"waiting", "loop", "stopped"}
      /\ probesAfterStop[t] = 0
      /\ emitsAfterStop[t] = 0

\* C5 witness: a worker stopped during its wait has reached Stopped.
C5_Witness ==
  \E t \in Threads : stopAt[t] = "waiting" /\ pc[t] = "stopped" /\ emitted[t] >= 1

\* C6: a worker whose stop event is set while its probe is in flight
\* completes the probe, puts its result on its queue and starts no other
\* probe; no worker puts more than one result after its stop event is set.
C6_StopWhileProbing ==
  \A t \in Threads :
    /\ emitsAfterStop[t] <= 1
    /\ probesAfterStop[t] = 0
    /\ stopAt[t] = "probing" =>
         \/ pc[t] = "probing" /\ emitsAfterStop[t] = 0
         \/ pc[t] \in {"waiting", "loop", "stopped"} /\ emitsAfterStop[t] = 1

\* C6 witness: a worker stopped during its probe has put that probe's
\* result and has reached Stopped.
C6_Witness ==
  \E t \in Threads :
    stopAt[t] = "probing" /\ pc[t] = "stopped" /\ emitsAfterStop[t] = 1

\* C7 (as claimed): a live panel never has more than one worker that has not
\* reached Stopped.
C7_OneWorkerPerPanel ==
  \A p \in PanelIds :
    pstate[p] = "live" => Cardinality({t \in ThreadsOf(p) : IsAlive(t)}) <= 1

\* C8 (as claimed): every result a worker of a live panel has put is applied
\* to the panel exactly once: it has been applied once, or it has not been
\* applied and waits on the queue the panel polls.
C8_AppliedExactlyOnce ==
  \A p \in PanelIds :
    pstate[p] = "live" =>
      \A t \in ThreadsOf(p) : \A n \in 1..emitted[t] :
        \/ Count(applied[p], <<t, n>>) = 1
        \/ /\ Count(applied[p], <<t, n>>) = 0
           /\ out_q[p] = t
           /\ \E i \in 1..Len(queue[t]) : queue[t][i].id = <<t, n>>

\* C9 (as claimed): once a panel is discarded, no worker it started is still
\* Probing or Waiting.
C9_StoppedBeforeDiscard ==
  \A p \in PanelIds :
    pstate[p] = "destroyed" =>
      \A t \in ThreadsOf(p) : pc[t] \notin {"probing", "waiting"}

\* C10 (as claimed): a panel exists if and only if it holds a worker handle.
C10_PanelIffHandle ==
  \A p \in PanelIds : (pstate[p] = "live") <=> (worker[p] # None)

\* C10 (amended): a worker handle is held only by a panel that exists, and it
\* names a thread that panel started; a panel may exist without a handle.
C10_HandleOnlyOfPanel ==
  \A p \in PanelIds :
    worker[p] # None => (pstate[p] = "live" /\ InSeq(panels, p) /\ owner[worker[p]] = p)

\* C10 witness: a removed panel, whose handle was dropped, beside a live
\* panel that holds one.
C10_Witness ==
  /\ \E p \in PanelIds : pstate[p] = "destroyed" /\ ThreadsOf(p) # {} /\ worker[p] = None
  /\ \E p \in PanelIds : pstate[p] = "live" /\ worker[p] # None

\* C11: a worker never ends because a probe failed: a probe that returns,
\* failed or not, is followed by the put and the wait; a wait or a loop test
\* that ends with the stop event clear leads to the next probe; the worker
\* enters Stopped only with its stop event set.
C11_FailureNeverStops ==
  [][/\ (Wpc = "probing" /\ Wpc' # Wpc) => Wpc' = "emit"
     /\ (Wpc = "emit" /\ Wpc' # Wpc) => Wpc' = "waiting"
     /\ (Wpc = "waiting" /\ ~Wstop /\ Wpc' # Wpc) => Wpc' = "loop"
     /\ (Wpc = "loop" /\ ~Wstop /\ Wpc' # Wpc) => Wpc' = "probing"
     /\ Wpc' = "stopped" => Wstop']_vars

\* C11 witness: a worker with three failures in a row, never stopped, is
\* probing again.
C11_Witness ==
  Wpc = "probing" /\ Wfailures = 3 /\ ~Wok /\ ~Wstop

\* C12 (as claimed): after a failed probe that took no longer than its
\* timeout, the wait entered is of positive duration.
C12_PositiveWait ==
  (Wpc = "waiting" /\ ~Wok /\ Welapsed <= WusedTimeout) => Wwait > 0

\* C12 (amended): after a failed probe the backoff is at least 1 s and the
\* next probe starts no sooner than the backoff after the failed probe
\* started: the wait is never negative, it is positive exactly when the probe
\* took less than the backoff, and probe time plus wait is at least the backoff.
C12_NoRetryWithinBackoff ==
  (Wpc = "waiting" /\ ~Wok) =>
    /\ Wbackoff >= 2
    /\ Wwait >= 0
    /\ Welapsed + Wwait >= Wbackoff
    /\ (Wwait > 0) <=> (Welapsed < Wbackoff)

\* C12 witness: interval 0.5 s, timeout 2 s, a first failure that took 1 s:
\* the backoff is 1 s and the wait is 0.
C12_Witness ==
  /\ Wpc = "waiting" /\ ~Wok /\ Wfailures = 1 /\ Wbase = 1 /\ WusedTimeout = 4
  /\ Welapsed = 2 /\ Wbackoff = 2 /\ Wwait = 0

\* C13 (as claimed): a worker reaches Stopped only after it has run a probe
\* (never from Idle).
C13_StoppedOnlyAfterProbe ==
  \A t \in Threads : pc[t] = "stopped" => emitted[t] >= 1

\* C13 (amended): a worker enters Stopped only from the loop test (before the
\* first probe or after a wait that timed out) or from its wait, and only with
\* its stop event set; a probe in flight is never cut short: it ends with its
\* result put and the wait entered.
C13_StoppedFromLoopOrWait ==
  [][\A t \in Threads :
       /\ (pc'[t] = "stopped" /\ pc[t] # "stopped") =>
            (pc[t] \in {"loop", "waiting"} /\ stopEv[t])
       /\ (pc[t] = "probing" /\ pc'[t] # "probing") =>
            (pc'[t] = "waiting" /\ emitted'[t] = emitted[t] + 1)]_vars

\* C13 witness: a worker stopped before its first loop test is Stopped
\* without having probed, and another was stopped during a probe and has
\* put that probe's result.
C13_Witness ==
  /\ \E t \in Threads : pc[t] = "stopped" /\ emitted[t] = 0 /\ stopAt[t] = "loop"
  /\ \E t \in Threads : pc[t] = "stopped" /\ stopAt[t] = "probing" /\ emitted[t] = 1

\* C14: once the stop event of a worker is set the worker eventually reaches
\* Stopped (every probe returns); setting the event again, or stopping a
\* panel that holds no worker, changes nothing.
C14_StopTerminates ==
  /\ Wstop ~> (Wpc = "stopped")
  /\ [][(Wstop /\ WStop) => UNCHANGED workerVars]_vars
  /\ [][(~Whandle /\ WPanelStop) => UNCHANGED workerVars]_vars
  /\ [][Wstop => Wstop']_vars

\* C14 witness: a worker stopped through its panel, after two failures in a
\* row, has reached Stopped, and the panel holds no handle any more.
C14_Witness ==
  Wpc = "stopped" /\ Wstop /\ ~Whandle /\ Wfailures = 2

\* C15: the results a panel has applied are in the order in which its worker
\* put them: of two applied results of one worker the earlier put was applied
\* first, and results of an earlier worker of the panel come before those of
\* a later one.
C15_AppliedInOrder ==
  \A p \in PanelIds :
    \A i, j \in 1..Len(applied[p]) :
      i < j => \/ applied[p][i][1] < applied[p][j][1]
               \/ /\ applied[p][i][1] = applied[p][j][1]
                  /\ applied[p][i][2] < applied[p][j][2]

\* C15 witness: a success and then a failure of one worker are applied, in
\* that order.
C15_Witness ==
  \E p \in PanelIds :
    /\ Len(applied[p]) = 2
    /\ applied[p][1][1] = applied[p][2][1]
    /\ points[p] = <<<<10, TRUE>>, <<0, FALSE>>>>

\* C16: a poll pass that applies anything applies all that is queued and
\* leaves the queue the panel polls empty; a worker whose probe has returned
\* can always put its result, whatever the queue holds.
C16_DrainAndNeverBlock ==
  /\ [](\A t \in Threads :
          pc[t] = "probing" =>
            ENABLED (\E ok \in BOOLEAN, lat \in Latencies \cup {NoLatency} :
                       ProbeEmit(t, ok, lat)))
  /\ [][\A p \in PanelIds :
          applied'[p] # applied[p] =>
            /\ out_q[p] # None
            /\ queue'[out_q[p]] = <<>>
            /\ Len(applied'[p]) = Len(applied[p]) + Len(queue[out_q[p]])]_vars

\* C16 witness: a worker is about to put while an earlier result of its is
\* still queued, unpolled.
C16_Witness ==
  \E p \in PanelIds :
    /\ pstate[p] = "live" /\ out_q[p] # None
    /\ Len(queue[out_q[p]]) = 1 /\ pc[out_q[p]] = "probing"

\* the (latency or 0, ok) entry of the result whose id is e
Sample(e) == <<IF e[2] = NoLatency THEN 0 ELSE e[2], e[3]>>

\* C17 (as claimed): after a result is applied, lastOk is its ok, lastLatencyMs
\* is its latency when ok (0 included) and the sentinel when not ok, and the
\* newest entry of the window is (latency or 0, ok).
C17_ApplySetsState ==
  Len(applied[1]) >= 1 =>
    LET e == applied[1][Len(applied[1])] IN
    /\ last_ok[1] = (IF e[3] THEN "True" ELSE "False")
    /\ last_latency[1] = (IF e[3] THEN e[2] ELSE Sentinel)
    /\ points[1][Len(points[1])] = Sample(e)

\* C18: the window never holds more than 100 entries and is the last
\* min(100, count) applied samples, in the order applied.
C18_WindowIsLastN ==
  LET n == Len(applied[1])
      m == IF n < 100 THEN n ELSE 100
  IN /\ Len(points[1]) = m
     /\ \A i \in 1..m : points[1][i] = Sample(applied[1][n - m + i])

\* C18 witness: 105 results applied, the window holds the 6th to the 105th.
C18_Witness ==
  /\ Len(applied[1]) = 105 /\ Len(points[1]) = 100
  /\ points[1][1] = Sample(applied[1][6])
  /\ points[1][100] = Sample(applied[1][105])

\* C19 (as claimed): with count >= 1 successful samples in the window, p95 is
\* the element at index max(0, ceil(0.95 * count) - 1) of their ascending
\* sort; with none, the value used is 20 ms.
C19_P95AsClaimed ==
  points[1] # <<>> =>
    LET v == SortedAsc(OkLatencies(points[1])) IN
    IF Len(v) >= 1 THEN P95(points[1]) = v[P95IndexCeil(Len(v)) + 1]
    ELSE EffP95(points[1]) = 20 /\ MaxV(points[1]) = 20

\* online hosts before the others, ascending latency within each group,
\* lowercase host name ascending among equal latencies
StatusOrdered ==
  \A i, j \in 1..Len(panels) :
    i < j =>
      LET a == panels[i]
          b == panels[j]
      IN /\ Bool(last_ok[b]) => Bool(last_ok[a])
         /\ Bool(last_ok[a]) = Bool(last_ok[b]) =>
              /\ last_latency[a] <= last_latency[b]
              /\ last_latency[a] = last_latency[b] =>
                   Ord(Lower(host[a])) <= Ord(Lower(host[b]))

\* C20: whenever _sort_panels has run in status mode (the mode was chosen, or
\* a result was applied with auto-sort on) the list is ordered by
\* (not lastOk, lastLatencyMs, lowercase host).
C20_StatusOrder ==
  [][(sort_by' = "status" /\ auto_sort' = auto_sort /\ (auto_sort \/ applied' = applied))
       => StatusOrdered']_vars

\* C20 witness: the hosts created first, second and third are online at
\* 50 ms, online at 10 ms and offline, and the list is 10 ms, 50 ms, offline.
C20_Witness ==
  /\ sort_by = "status" /\ auto_sort
  /\ last_ok[1] = "True" /\ last_latency[1] = 50
  /\ last_ok[2] = "True" /\ last_latency[2] = 10
  /\ last_ok[3] = "False"
  /\ \E i, j, k \in 1..Len(panels) :
       i < j /\ j < k /\ panels[i] = 2 /\ panels[j] = 1 /\ panels[k] = 3

\* _sort_panels ran in the step: the mode was chosen, or a result was applied
\* with auto-sort on
SortRan == auto_sort' = auto_sort /\ (auto_sort \/ applied' = applied)

\* hosts whose last applied probe did not succeed carry the sentinel and come
\* after every host whose last applied probe succeeded; sentinel hosts are in
\* lowercase host order
LatencyOrdered ==
  /\ \A p \in PanelIds : ~Bool(last_ok[p]) => last_latency[p] = Sentinel
  /\ \A i, j \in 1..Len(panels) :
       i < j =>
         LET a == panels[i]
             b == panels[j]
         IN /\ Bool(last_ok[b]) => Bool(last_ok[a])
            /\ (last_latency[a] = Sentinel /\ last_latency[b] = Sentinel) =>
                 Ord(Lower(host[a])) <= Ord(Lower(host[b]))

\* C21 (as claimed): whenever _sort_panels has run in latency mode, every host
\* without a successful last probe carries the sentinel and is ordered after
\* every host whose last applied probe succeeded, sentinel hosts among
\* themselves by lowercase host name.
C21_SentinelLast ==
  [][(sort_by' = "latency" /\ SortRan) => LatencyOrdered']_vars

\* C22: in every mode, _sort_panels applied to the list it has just produced,
\* the host states unchanged, gives that list again.
C22_SortIdempotent ==
  \A m \in SortModes :
    LET once == SortPanels(panels, m, last_ok, last_latency, host)
    IN SortPanels(once, m, last_ok, last_latency, host) = once

\* C22 witness: auto-sort is off, the list is not in the order of its mode,
\* and the two hosts a and A have equal keys.
C22_Witness ==
  /\ ~auto_sort
  /\ SortPanels(panels, sort_by, last_ok, last_latency, host) # panels
  /\ pstate[3] = "live"
  /\ Key(sort_by, last_ok, last_latency, host, 2) = Key(sort_by, last_ok, last_latency, host, 3)
  /\ Len(applied[1]) >= 1

\* the list ps in the opposite arrangement
Reversed(ps) == [i \in 1..Len(ps) |-> ps[Len(ps) + 1 - i]]

\* C23 (as claimed): in every mode any two distinct hosts of the list have
\* different sort keys, and the sorted order does not depend on the
\* arrangement the list had before.
C23_TotalOrder ==
  \A m \in SortModes :
    /\ \A i, j \in 1..Len(panels) :
         i # j => Key(m, last_ok, last_latency, host, panels[i])
                    # Key(m, last_ok, last_latency, host, panels[j])
    /\ SortPanels(Reversed(panels), m, last_ok, last_latency, host)
         = SortPanels(panels, m, last_ok, last_latency, host)

\* C24 (as claimed): a success after one failure gives streak 0 and backoff
\* base; a failure after a success gives streak 1 and backoff 2 x base, for
\* every base interval.
C24_AlternatesDoubling ==
  Wpc = "waiting" =>
    /\ (Wok /\ WprevFailures = 1) => (Wfailures = 0 /\ Wbackoff = Wbase)
    /\ (~Wok /\ WprevFailures = 0) => (Wfailures = 1 /\ Wbackoff = 2 * Wbase)

\* C24 (amended): a success after one failure gives streak 0 and backoff
\* base; a failure after a success gives streak 1 and backoff
\* min(30 s, 2 x base).
C24_AlternatesCapped ==
  Wpc = "waiting" =>
    /\ (Wok /\ WprevFailures = 1) => (Wfailures = 0 /\ Wbackoff = Wbase)
    /\ (~Wok /\ WprevFailures = 0) =>
         (Wfailures = 1 /\ Wbackoff = (IF 2 * Wbase > 60 THEN 60 ELSE 2 * Wbase))

\* C24 witness: base interval 30 s, a failure after a success: streak 1 and
\* backoff 30 s, not 60 s.
C24_Witness ==
  /\ Wpc = "waiting" /\ ~Wok /\ WprevFailures = 0 /\ Wfailures = 1
  /\ Wbase = 60 /\ Wbackoff = 60 /\ Welapsed = 1

\* C25: a change of the global interval or timeout leaves the running worker
\* as it is (position, streak, stop event, handle); every probe that starts
\* afterwards is called with the timeout then current, and every wait
\* computed afterwards uses the interval then current.
C25_FreshConfigEachCycle ==
  [][/\ (Wpc = "loop" /\ Wpc' = "probing") => WusedTimeout' = Wtimeout
     /\ (Wpc = "emit" /\ Wpc' = "waiting") =>
          (Wbase' = Winterval /\ Wbackoff' = Backoff(Winterval, Wfailures'))
     /\ (Winterval' # Winterval \/ Wtimeout' # Wtimeout) =>
          /\ Wpc' = Wpc /\ Wfailures' = Wfailures
          /\ Wstop' = Wstop /\ Whandle' = Whandle]_vars

\* C25 witness: the timeout was raised from 0.5 s to 2 s while a probe of a
\* worker with two failures in a row was in flight; that probe still runs
\* with 0.5 s.
C25_Witness ==
  Wpc = "probing" /\ WusedTimeout = 1 /\ Wtimeout = 4 /\ Wfailures = 2 /\ ~Wstop

\* C26 (as claimed): every step that starts or stops the worker, or is a step
\* of the worker itself, leaves the interval and the timeout of the HostSpec
\* as they were; only a change of the global defaults alters them.
C26_ConfigKept ==
  [][(Whandle' # Whandle \/ Wpc' # Wpc \/ Wstop' # Wstop) =>
       (Winterval' = Winterval /\ Wtimeout' = Wtimeout)]_vars

\* C27: lastOk, lastLatencyMs and the window of a panel change only in a step
\* that applies results to that panel, and those results were put by a worker
\* of that panel; no worker step, start, stop, add, remove or sort of the
\* list changes them.
C27_DerivedStateOnlyByApply ==
  [][\A p \in PanelIds :
       (last_ok'[p] # last_ok[p] \/ last_latency'[p] # last_latency[p]
          \/ points'[p] # points[p]) =>
         /\ Len(applied'[p]) > Len(applied[p])
         /\ \A i \in (Len(applied[p]) + 1)..Len(applied'[p]) :
              owner[applied'[p][i][1]] = p]_vars

\* C27 witness: of two live panels one has applied a failed probe; the
\* other's worker has put a result that is not applied yet, and its derived
\* state is still the initial one.
C27_Witness ==
  \E p, q \in PanelIds :
    /\ p # q /\ pstate[p] = "live" /\ pstate[q] = "live"
    /\ last_ok[p] = "False" /\ points[p] = <<<<0, FALSE>>>>
    /\ last_ok[q] = "None" /\ last_latency[q] = Sentinel /\ points[q] = <<>>
    /\ \E t \in Threads : owner[t] = q /\ emitted[t] = 1

\* the list is in non-decreasing order of the key of the current mode
KeyOrdered ==
  \A i, j \in 1..Len(panels) :
    i < j => ~KeyLess(Key(sort_by, last_ok, last_latency, host, panels[j]),
                      Key(sort_by, last_ok, last_latency, host, panels[i]))

\* C28: with auto-sort on before and after, every step (a result applied, a
\* host added, a sort mode chosen) ends with the list in non-decreasing
\* order of the current mode's key.
C28_AutoSortKeepsOrder ==
  [][(auto_sort /\ auto_sort') => KeyOrdered']_vars

\* C28 witness: in latency mode with auto-sort on, results have been applied
\* to all three hosts, the last host was added by the user, and the list is
\* in key order, which is not the order of creation.
C28_Witness ==
  /\ auto_sort /\ sort_by = "latency" /\ KeyOrdered
  /\ \A p \in 1..3 : pstate[p] = "live" /\ applied[p] # <<>>
  /\ last_latency[1] = 10 /\ last_latency[2] = 50 /\ last_ok[3] = "False"
  /\ panels[1] = 1

====
